---- MODULE Spec2Model ----
(***************************************************************************)
(* A model of the recorder engine of bili-shadowreplay                     *)
(* (src-tauri/src/recorder.rs, src-tauri/src/db.rs): the ingestion loop    *)
(* of BiliRecorder::run, the per-session state it mutates, the on-disk     *)
(* cache directory, the records table, and the two readers                 *)
(* (playlist synthesis and clip extraction).                               *)
(*                                                                         *)
(* Conventions.                                                            *)
(*  - f64 values (ts_length, declared segment durations, clip offsets)     *)
(*    are restricted to integers.                                          *)
(*  - A segment file is named by its sequence number ("<seq>.m4s"), the    *)
(*    initialization segment of session t is "h<t>.m4s"; a file is         *)
(*    identified by [h, n] (h: is a header, n: sequence or timestamp).     *)
(*  - The state of one recorder is handled as a record (see St) so that    *)
(*    each method is an operator from state and inputs to state and        *)
(*    result; the actions apply these operators to the variables.          *)
(***************************************************************************)
EXTENDS Integers, Sequences, FiniteSets, TLC

\* ------------------------------------------------------------------ bounds
\* largest sequence number a fetched media playlist lists
MaxSeq == 2
\* largest number of segments one fetched media playlist lists
MaxSegs == 2
\* cap on the length of the segment cache
MaxCache == 3
\* cap on the cumulative byte counter
MaxBytes == 3

\* session timestamps a header name can carry (0 is "h0.m4s")
Timestamps == {1, 2}
\* declared durations of a segment (EXTINF), in seconds
Durations == {1, 2}
\* byte sizes a segment download can report
SegSizes == {1}
\* byte sizes an initialization-segment download can report
HeaderSizes == {1}
\* playlist urls get_play_url or a master playlist can name (m3u8_url is ""
\* until one is resolved)
PlayUrls == {"a/index.m3u8"}

StreamTypes == {"TS", "FMP4"}

\* ----------------------------------------------------------------- helpers

RECURSIVE SumSizes(_)
SumSizes(es) == IF es = <<>> THEN 0 ELSE Head(es).size + SumSizes(Tail(es))

MinOf(S) == CHOOSE x \in S : \A y \in S : x <= y

SeqNums == 0..MaxSeq

\* A TsEntry of the cache is kept as [sequence]: its url is the file name of
\* that sequence, and its _length and size are never read once it is cached.
Entry(n) == [sequence |-> n]
\* Option<TsEntry> of the initialization segment ("h<ts>.m4s")
NoHeader == [some |-> FALSE, ts |-> 0]
SomeHeader(t) == [some |-> TRUE, ts |-> t]

\* a directory of the cache root: absent, or its segment files (segs[n] is
\* the byte size of the file "<n>.m4s", 0 when there is none). Its "h" file
\* is not kept: get_fs_entries skips it and nothing else reads it.
NoSegs == [n \in SeqNums |-> 0]
NoDir == [exists |-> FALSE, segs |-> NoSegs]
EmptyDir == [exists |-> TRUE, segs |-> NoSegs]

\* room ids: the room of the recorder and another room
Rooms == {1, 2}
\* BiliRecorder.room_id
room_id == 1
\* values of Utc::now() (created_at of a row)
Instants == {1, 2}
\* the instant at which the ingestion cycles of the model register a
\* session: the recorder never reads created_at
CycleInstant == 1

\* a row of the records table (absent: no row with that live_id)
NoRecord == [present |-> FALSE, room_id |-> 0, length |-> 0, size |-> 0, created_at |-> 0]
RecordRow(room, length, size, created_at) ==
    [present |-> TRUE, room_id |-> room, length |-> length, size |-> size,
     created_at |-> created_at]

\* url.rfind("index.m3u8") finds the marker
HasIndex(url) == url = "a/index.m3u8"

\* ------------------------------------------------- what the remote returns
\* get_room_info: a failure, or live_status == 1, or not
RoomInfos == {"err", "live", "offline"}
\* get_play_url: a failure, or (index_url, stream_type)
PlayResults == {[ok |-> FALSE, url |-> "", stype |-> "FMP4"]}
               \cup {[ok |-> TRUE, url |-> u, stype |-> t] : u \in PlayUrls, t \in StreamTypes}
\* a media playlist: media_sequence and the declared durations of its segments
DurSeqs == UNION {[1..n -> Durations] : n \in 0..MaxSegs}
MediaDocs == {p \in {[kind |-> "media", first |-> f, durs |-> d] :
                           f \in SeqNums, d \in DurSeqs} :
                 p.first + Len(p.durs) <= MaxSeq + 1}
OtherDoc(k) == [kind |-> k, first |-> 0, durs |-> <<>>]
\* get_index_content as get_playlist reads it: a failure, a document holding
\* "Not Found", a master playlist, a document that does not parse, or a media
\* playlist
Docs == {OtherDoc("err"), OtherDoc("notfound"), OtherDoc("master"), OtherDoc("garbage")}
        \cup MediaDocs
\* get_index_content as get_header_url reads it: a failure, "Not Found", a
\* document holding "BANDWIDTH" whose last line is new_url, or a document in
\* which r"h.*\.m4s" matches nothing ("none"), a name without digits
\* ("alpha"), or "h<ts>.m4s" ("digits")
\* (tss: the session timestamps the remote serves)
\* OverflowDoc names "h<digits>.m4s" with digits beyond u64.
OverflowDoc == [kind |-> "media", new_url |-> "", name |-> "overflow", ts |-> 0]
\* the longest run of fetches one get_header_url call is followed through
MaxFetches == 3

HeaderDocs(tss) ==
    {[kind |-> k, new_url |-> "", name |-> "none", ts |-> 0] : k \in {"err", "notfound"}}
    \cup {[kind |-> "master", new_url |-> u, name |-> "none", ts |-> 0] : u \in PlayUrls}
    \cup {[kind |-> "media", new_url |-> "", name |-> n, ts |-> 0] : n \in {"none", "alpha"}}
    \cup {[kind |-> "media", new_url |-> "", name |-> "digits", ts |-> t] : t \in tss \cup {0}}
\* download_ts: 0 is a failure, otherwise the byte size written
DownloadResults == {0} \cup SegSizes
HeaderDownloadResults == {0} \cup HeaderSizes

\* --------------------------------------------------------------- the state
\* The fields of BiliRecorder that change, the cache directory of the room
\* and the records table, as one record.
St(ls, lsq, tl, tsp, te, hd, sty, cs, url, f, r) ==
    [live_status |-> ls, last_sequence |-> lsq, ts_length |-> tl, timestamp |-> tsp,
     ts_entries |-> te, header |-> hd, stream_type |-> sty, cache_size |-> cs,
     m3u8_url |-> url, fs |-> f, records |-> r]

NoFs == [t \in Timestamps |-> NoDir]
NoRecords == [t \in Timestamps |-> NoRecord]

\* BiliRecorder::new: the fields after construction, given what get_room_info
\* and get_play_url returned
new(live, play, f, r) ==
    St(live, 0, 0, 0, <<>>, NoHeader,
       IF live /\ play.ok THEN play.stype ELSE "FMP4", 0,
       IF live /\ play.ok THEN play.url ELSE "", f, r)

reset(s) ==
    [s EXCEPT !.ts_length = 0, !.last_sequence = 0, !.ts_entries = <<>>,
              !.header = NoHeader, !.timestamp = 0]

\* check_status clearing the session when get_room_info fails
check_status_resetting(s, room, play) ==
    IF room = "live"
    THEN [s |-> IF play.ok
                THEN [s EXCEPT !.m3u8_url = play.url, !.stream_type = play.stype,
                               !.live_status = TRUE]
                ELSE [s EXCEPT !.live_status = TRUE],
          ret |-> TRUE]
    ELSE [s |-> [reset(s) EXCEPT !.live_status = (room = "err")], ret |-> room = "err"]

\* check_status: [s: the state after, ret: the bool returned]
check_status(s, room, play) ==
    IF room = "err" THEN [s |-> [s EXCEPT !.live_status = TRUE], ret |-> TRUE]
    ELSE IF room = "live"
         THEN [s |-> IF play.ok
                     THEN [s EXCEPT !.m3u8_url = play.url, !.stream_type = play.stype,
                                    !.live_status = TRUE]
                     ELSE [s EXCEPT !.live_status = TRUE],
               ret |-> TRUE]
         ELSE [s |-> [reset(s) EXCEPT !.live_status = FALSE], ret |-> FALSE]

\* ------------------------------------------------------- the records table
\* Database::get_record: SELECT ... WHERE live_id = $1 and room_id = $2,
\* fetch_one: [ok, row]
get_record(recs, room, live_id) ==
    IF recs[live_id].present /\ recs[live_id].room_id = room
    THEN [ok |-> TRUE, row |-> recs[live_id]]
    ELSE [ok |-> FALSE, row |-> NoRecord]

\* Database::add_record returning the record it built when the INSERT hits
\* the UNIQUE constraint
add_record_fresh(s, live_id, room, now) ==
    LET record == RecordRow(room, 0, 0, now)
    IN  IF s.records[live_id].present THEN [s |-> s, ret |-> [ok |-> TRUE, row |-> record]]
        ELSE [s |-> [s EXCEPT !.records[live_id] = record],
              ret |-> [ok |-> TRUE, row |-> record]]

\* Database::add_record (live_id is the PRIMARY KEY): INSERT; on the UNIQUE
\* failure get_record(room_id, live_id) is returned and nothing is written:
\* [s, ret: [ok, row]]
add_record(s, live_id, room, now) ==
    LET record == RecordRow(room, 0, 0, now)
    IN  IF s.records[live_id].present
        THEN [s |-> s, ret |-> get_record(s.records, room, live_id)]
        ELSE [s |-> [s EXCEPT !.records[live_id] = record],
              ret |-> [ok |-> TRUE, row |-> record]]

\* Database::update_record: UPDATE ... WHERE live_id = $3 (no row: nothing
\* is written and Ok(()) is returned)
update_record(s, live_id, length, size) ==
    IF live_id \in Timestamps /\ s.records[live_id].present
    THEN [s EXCEPT !.records[live_id].length = length, !.records[live_id].size = size]
    ELSE s

\* Database::update_record returns Ok(()) once the statement has run; the
\* number of rows it affected is not read
update_record_ret(s, live_id) == "Ok"

\* Database::remove_record: [s, ret]; DELETE ... WHERE live_id = $1, and
\* Ok(()) whatever the number of rows deleted
remove_record(s, live_id) ==
    [s |-> IF live_id \in Timestamps
           THEN [s EXCEPT !.records[live_id] = NoRecord] ELSE s,
     ret |-> "Ok"]

\* --------------------------------------------------------- the file system
DirExists(f, t) == t \in Timestamps /\ f[t].exists

\* the files of a listing still to be emitted, by ascending sequence
RECURSIVE SortBySequence(_, _)
SortBySequence(segs, left) ==
    IF left = {} THEN <<>>
    ELSE LET n == MinOf(left)
         IN  <<[sequence |-> n, size |-> segs[n]]>> \o SortBySequence(segs, left \ {n})

\* get_fs_entries: the regular files of the directory whose name does not
\* start with "h", sorted by the sequence parsed from the name; empty when
\* the directory cannot be read
get_fs_entries(f, t) ==
    IF ~DirExists(f, t) THEN <<>>
    ELSE SortBySequence(f[t].segs, {n \in SeqNums : f[t].segs[n] > 0})

\* restore: load the directory's entries into the cache
restore(s, t) ==
    LET entries == get_fs_entries(s.fs, t)
    IN  IF entries = <<>> THEN s
        ELSE [s EXCEPT !.ts_entries = @ \o [i \in 1..Len(entries) |-> Entry(entries[i].sequence)],
                       !.ts_length = Len(entries),
                       !.cache_size = SumSizes(entries),
                       !.last_sequence = entries[Len(entries)].sequence]

\* fs::create_dir_all(work_dir)
create_dir_all(s, t) == [s EXCEPT !.fs[t] = EmptyDir]

\* download_ts of segment n into the directory of session wd by a spawned
\* task of update_entries: on success the file is written and cache_size
\* grows; a directory that does not exist makes the write fail
download_segment(s, wd, n, r) ==
    IF r > 0 /\ DirExists(s.fs, wd)
    THEN [s EXCEPT !.fs[wd].segs[n] = r, !.cache_size = @ + r]
    ELSE s

\* ------------------------------------------------------ the playlist fetcher
ErrParsed == OtherDoc("err")

\* m3u8_rs::parse_playlist_res of a fetched document
ParsePlaylist(doc) ==
    IF doc.kind \in {"master", "media"} THEN doc ELSE ErrParsed

\* get_header_url from the content it goes on with (lines 308-322):
\* [s, ret, name, ts] with ret "Ok" (header_url is the name found, "none" for
\* the empty string), "Recurse" (m3u8_url replaced, get_header_url called
\* again) or the error returned
get_header_url(s, content) ==
    LET out(st, r, n) == [s |-> st, ret |-> r, name |-> n, ts |-> content.ts]
    IN  IF content.kind = "err" THEN out(s, "ClientError", "none")
        ELSE IF content.kind = "master"
             THEN out([s EXCEPT !.m3u8_url = content.new_url], "Recurse", "none")
        ELSE IF content.kind = "notfound" THEN out(s, "Ok", "none")
        ELSE out(s, "Ok", content.name)

\* get_header_url called with the documents its successive fetches return:
\* the number of times it calls itself (lines 308-312) before it returns or
\* the documents run out
RECURSIVE FollowRedirects(_, _)
FollowRedirects(s, docs) ==
    IF docs = <<>> THEN 0
    ELSE LET g == get_header_url(s, Head(docs))
         IN  IF g.ret = "Recurse" THEN 1 + FollowRedirects(g.s, Tail(docs)) ELSE 0

\* extract_timestamp: [s, ret, panic]; a name with digits stores them in
\* timestamp; digits that do not fit u64 ("overflow") make parse().unwrap()
\* panic
extract_timestamp(s, name, ts) ==
    IF name = "digits" THEN [s |-> [s EXCEPT !.timestamp = ts], ret |-> ts, panic |-> FALSE]
    ELSE IF name = "overflow" THEN [s |-> s, ret |-> 0, panic |-> TRUE]
    ELSE [s |-> s, ret |-> 0, panic |-> FALSE]

\* ---------------------------------------------------------- update_entries
\* the header branch entered for any stream type
NeedsHeaderAnyStream(s) == ~s.header.some

\* the header is missing and the stream is fragmented MP4 (line 365)
NeedsHeader(s) == ~s.header.some /\ s.stream_type = "FMP4"

\* download_ts of the initialization segment (lines 408-424)
download_header(s, t, r) ==
    IF r > 0
    THEN [s EXCEPT !.header = SomeHeader(t), !.cache_size = @ + r]
    ELSE s

\* update_entries from the header url on (lines 369-425):
\* [s, ret: "Ok" or the error returned, ts: the local timestamp]
update_entries_header(s, name, ts, r) ==
    IF name = "none" THEN [s |-> s, ret |-> "EmptyHeader", ts |-> 0]
    ELSE LET e == extract_timestamp(s, name, ts)
         IN  IF e.panic THEN [s |-> e.s, ret |-> "panic", ts |-> 0]
             ELSE IF e.ret = 0 THEN [s |-> e.s, ret |-> "InvalidTimestamp", ts |-> 0]
             ELSE LET a == add_record(e.s, e.ret, room_id, CycleInstant)
                      s1 == a.s
                      s2 == IF DirExists(s1.fs, e.ret) THEN restore(s1, e.ret)
                            ELSE create_dir_all(s1, e.ret)
                  IN  IF ~a.ret.ok
                      THEN [s |-> s1, ret |-> "DatabaseError", ts |-> e.ret]
                      ELSE IF ~HasIndex(s2.m3u8_url)
                      THEN [s |-> s2, ret |-> "InvalidM3u8Url", ts |-> e.ret]
                      ELSE [s |-> download_header(s2, e.ret, r), ret |-> "Ok", ts |-> e.ret]

\* lines 436-472 for one new segment: the download is spawned, and the entry
\* is pushed, last_sequence set and ts_length increased whatever becomes of it
push_segment(s, wd, sequence, duration, r) ==
    [download_segment(s, wd, sequence, r) EXCEPT
        !.ts_entries = Append(@, Entry(sequence)),
        !.last_sequence = sequence,
        !.ts_length = @ + duration]

\* the for loop over pl.segments from the i-th segment on (lines 431-473)
RECURSIVE SegmentLoop(_, _, _, _, _)
SegmentLoop(s, pl, i, wd, dl) ==
    IF i > Len(pl.durs) THEN s
    ELSE LET sequence == pl.first + i - 1
         IN  IF sequence <= s.last_sequence THEN SegmentLoop(s, pl, i + 1, wd, dl)
             ELSE SegmentLoop(push_segment(s, wd, sequence, pl.durs[i], dl[i]),
                              pl, i + 1, wd, dl)

\* update_entries persisting the counters before the batch has resolved
update_entries_segments_early(s, pl, wd, dl) ==
    IF pl.kind = "master" THEN [s |-> s, ret |-> "Ok"]
    ELSE IF pl.kind = "media"
    THEN IF /\ \E i \in 1..Len(pl.durs) : pl.first + i - 1 > s.last_sequence
            /\ ~HasIndex(s.m3u8_url)
         THEN [s |-> s, ret |-> "InvalidM3u8Url"]
         ELSE LET s1 == SegmentLoop(s, pl, 1, wd, dl)
              IN  [s |-> update_record(s1, wd, Len(s1.ts_entries), s.cache_size),
                   ret |-> "Ok"]
    ELSE [s |-> s, ret |-> "InvalidPlaylist"]

\* update_entries from `match parsed` on (lines 426-492): [s, ret]. ts_url
\* fails for the first new segment when m3u8_url holds no "index.m3u8".
update_entries_segments(s, pl, wd, dl) ==
    IF pl.kind = "master" THEN [s |-> s, ret |-> "Ok"]
    ELSE IF pl.kind = "media"
    THEN IF /\ \E i \in 1..Len(pl.durs) : pl.first + i - 1 > s.last_sequence
            /\ ~HasIndex(s.m3u8_url)
         THEN [s |-> s, ret |-> "InvalidM3u8Url"]
         ELSE LET s1 == SegmentLoop(s, pl, 1, wd, dl)
              IN  [s |-> update_record(s1, wd, Len(s1.ts_entries), s1.cache_size),
                   ret |-> "Ok"]
    ELSE [s |-> s, ret |-> "InvalidPlaylist"]

\* --------------------------------------------------------- clip extraction
\* a file handed to the transcoder: the "h" file or a segment of directory dir
HeaderFile(dir, t) == [dir |-> dir, h |-> TRUE, n |-> t]
SegmentFile(dir, n) == [dir |-> dir, h |-> FALSE, n |-> n]

\* what a clip request comes to: the error returned ("none" for Ok, "panic"
\* for an unwrap of None), the concatenation list, whether the output
\* directory was created and whether the transcoder was spawned
ClipFailed(e) == [err |-> e, files |-> <<>>, outdir |-> FALSE, transcoded |-> FALSE]
ClipDone(files) == [err |-> "none", files |-> files, outdir |-> TRUE, transcoded |-> TRUE]

\* the scan of clip_live_range (lines 607-618) from the i-th entry on
RECURSIVE LiveScan(_, _, _, _, _)
LiveScan(entries, i, offset, start, end) ==
    IF i > Len(entries) THEN <<>>
    ELSE IF offset < start THEN LiveScan(entries, i + 1, offset + 1, start, end)
    ELSE IF offset >= end THEN <<entries[i]>>
    ELSE <<entries[i]>> \o LiveScan(entries, i + 1, offset + 1, start, end)

\* the scan of clip_archive_range (lines 547-560) from the i-th entry on
RECURSIVE ArchiveScan(_, _, _, _, _)
ArchiveScan(entries, i, offset, x, y) ==
    IF i > Len(entries) THEN <<>>
    ELSE IF offset < x THEN ArchiveScan(entries, i + 1, offset + 1, x, y)
    ELSE IF offset > y THEN <<entries[i]>>
    ELSE <<entries[i]>> \o ArchiveScan(entries, i + 1, offset + 1, x, y)

clip_live_range(s, x, y) ==
    LET header_copy == s.header
        entry_copy == s.ts_entries
        start == IF x > y THEN y ELSE x
        end == IF x > y THEN x ELSE y
        to_combine == LiveScan(entry_copy, 1, 0, start, end)
        segs == [i \in 1..Len(to_combine) |-> SegmentFile(s.timestamp, to_combine[i].sequence)]
    IN  IF entry_copy = <<>> THEN ClipFailed("EmptyCache")
        ELSE IF s.stream_type = "FMP4"
             THEN IF ~header_copy.some THEN ClipFailed("panic")
                  ELSE ClipDone(<<HeaderFile(s.timestamp, header_copy.ts)>> \o segs)
             ELSE ClipDone(segs)

\* clip_archive_range without the return at lines 539-541
clip_archive_range_unguarded(s, ts, x, y) ==
    LET entries == get_fs_entries(s.fs, ts)
        picked == ArchiveScan(entries, 1, 0, x, y)
    IN  ClipDone(<<HeaderFile(ts, ts)>>
                 \o [i \in 1..Len(picked) |-> SegmentFile(ts, picked[i].sequence)])

clip_archive_range(s, ts, x, y) ==
    LET entries == get_fs_entries(s.fs, ts)
        picked == ArchiveScan(entries, 1, 0, x, y)
    IN  IF entries = <<>> THEN ClipFailed("EmptyCache")
        ELSE ClipDone(<<HeaderFile(ts, ts)>>
                      \o [i \in 1..Len(picked) |-> SegmentFile(ts, picked[i].sequence)])

clip_range(s, ts, x, y) ==
    IF s.timestamp = ts THEN clip_live_range(s, x, y) ELSE clip_archive_range(s, ts, x, y)

\* clip(ts, d, output_path), lines 508-512: the range handed to clip_range
\* ends at ts_length, the cumulative duration of the active session
clip(s, ts, d) ==
    LET total_length == s.ts_length
    IN  clip_range(s, ts, total_length - d, total_length)

\* ------------------------------------------------------- playlist synthesis
\* `entry.sequence - last_sequence > 1` on u64: with overflow checks a
\* smaller sequence panics, without them the difference wraps to at least
\* 2^64 - MaxSeq. [panic, gap]
SequenceGap(current, last, checked) ==
    IF current >= last THEN [panic |-> FALSE, gap |-> current - last > 1]
    ELSE [panic |-> checked, gap |-> TRUE]

\* the lines of the entries (lines 687-696 and 760-771): [disc, n] per entry
PlaylistItems(entries, checked) ==
    [i \in 1..Len(entries) |->
        [disc |-> SequenceGap(entries[i].sequence,
                              entries[IF i = 1 THEN 1 ELSE i - 1].sequence, checked).gap,
         n |-> entries[i].sequence]]
PlaylistPanics(entries, checked) ==
    \E i \in 2..Len(entries) :
        SequenceGap(entries[i].sequence, entries[i - 1].sequence, checked).panic

\* a synthesized playlist: its type, the EXT-X-MAP file (map.some), the
\* directory of its paths, its entries and whether #EXT-X-ENDLIST ends it
Playlist(type, map, dir, items, endlist, panic) ==
    [type |-> type, map |-> map, dir |-> dir, items |-> items,
     endlist |-> endlist, panic |-> panic]

generate_live_m3u8(s, checked) ==
    LET type == IF s.live_status THEN "EVENT" ELSE "VOD"
        entries == s.ts_entries
    IN  IF entries = <<>> THEN Playlist(type, s.header, s.timestamp, <<>>, FALSE, FALSE)
        ELSE IF PlaylistPanics(entries, checked)
        THEN Playlist(type, s.header, s.timestamp, <<>>, FALSE, TRUE)
        ELSE Playlist(type, s.header, s.timestamp, PlaylistItems(entries, checked),
                      ~s.live_status, FALSE)

generate_archive_m3u8(s, ts, checked) ==
    LET entries == get_fs_entries(s.fs, ts)
    IN  IF entries = <<>> THEN Playlist("VOD", SomeHeader(ts), ts, <<>>, FALSE, FALSE)
        ELSE Playlist("VOD", SomeHeader(ts), ts, PlaylistItems(entries, checked), TRUE,
                      PlaylistPanics(entries, checked))

\* checked: the build has overflow checks
generate_m3u8(s, ts, checked) ==
    IF s.timestamp = ts THEN generate_live_m3u8(s, checked)
    ELSE generate_archive_m3u8(s, ts, checked)

\* ------------------------------------------------------------ the variables
VARIABLES
    live_status, last_sequence, ts_length, timestamp, ts_entries, header,
    stream_type, cache_size, m3u8_url,   \* the fields of BiliRecorder
    quit,                                \* the quit flag
    fs,                                  \* <cache>/<room_id>/: one directory per session
    records,                             \* the records table, by live_id
    pc,                                  \* where the ingestion thread of run() is
    parsed,                              \* the local `parsed` of update_entries
    served,                              \* the session timestamps the remote serves
    out,                                 \* what the clip request being answered came to
    shadow,                              \* ghost: the recorder that was never restarted
    task_at,                             \* where each task is in its lock operations
    view,                                \* the locals of a generate_m3u8 call under way
    deleting                             \* where a delete_archive call under way is

\* the tasks that run beside the ingestion handlers
concurrent == <<task_at, view, deleting>>

vars == <<live_status, last_sequence, ts_length, timestamp, ts_entries, header,
          stream_type, cache_size, m3u8_url, quit, fs, records, pc, parsed,
          served, out, shadow, task_at, view, deleting>>

\* the tasks whose lock operations are followed
Tasks == {"run", "download", "playlist", "clip"}
\* no task has started, no generate_m3u8 and no delete_archive is under way
NoTasks == [t \in Tasks |-> 0]
NoView == [pc |-> "idle"]
NotDeleting == [step |-> "idle"]

Cur == St(live_status, last_sequence, ts_length, timestamp, ts_entries, header,
          stream_type, cache_size, m3u8_url, fs, records)

Set(s) ==
    /\ live_status' = s.live_status
    /\ last_sequence' = s.last_sequence
    /\ ts_length' = s.ts_length
    /\ timestamp' = s.timestamp
    /\ ts_entries' = s.ts_entries
    /\ header' = s.header
    /\ stream_type' = s.stream_type
    /\ cache_size' = s.cache_size
    /\ m3u8_url' = s.m3u8_url
    /\ fs' = s.fs
    /\ records' = s.records

\* no clip request is being answered
NoOut == [op |-> "none"]
Idle == out = NoOut

\* the model stops growing the counters the code never bounds
Bounded(s) == Len(s.ts_entries) <= MaxCache /\ s.cache_size <= MaxBytes

NoPlay == [ok |-> FALSE, url |-> "", stype |-> "FMP4"]
PlaysFor(room) == IF room = "live" THEN PlayResults ELSE {NoPlay}

\* What get_playlist left in `parsed`: "err" for any Err, "ok" for a fetched
\* document. The content of a fetched document is drawn where `match parsed`
\* reads it: nothing before that depends on it.
ParsedDocs(p) == IF p = "ok" THEN Docs \ {OtherDoc("err"), OtherDoc("notfound")}
                 ELSE {ErrParsed}

\* update_entries from `match parsed` on, for what get_playlist returned
match_parsed(s, p, doc, wd, dl) ==
    update_entries_segments(s, IF p = "ok" THEN ParsePlaylist(doc) ELSE ErrParsed, wd, dl)

\* update_entries from the content get_header_url goes on with (lines
\* 308-492): [s, ret]
header_branch(s, p, content, r, doc, dl) ==
    LET g == get_header_url(s, content)
        h == update_entries_header(g.s, g.name, g.ts, r)
    IN  IF g.ret # "Ok" THEN [s |-> g.s, ret |-> g.ret]
        ELSE IF h.ret # "Ok" THEN [s |-> h.s, ret |-> h.ret]
        ELSE match_parsed(h.s, p, doc, h.ts, dl)

\* ------------------------------------------------------- the ingestion loop
\* update_entries once get_playlist has returned p in state s (lines
\* 362-492): the header branch is entered, or the parsed playlist ingested
AfterGetPlaylist(s, p) ==
    IF NeedsHeader(s)
    THEN Set(s) /\ pc' = "get_header_url" /\ parsed' = p
    ELSE \E doc \in ParsedDocs(p) : \E dl \in [1..Len(doc.durs) -> DownloadResults] :
            LET u == match_parsed(s, p, doc, s.timestamp, dl)
            IN  /\ Set(u.s)
                /\ Bounded(u.s)
                /\ pc' = IF u.ret = "Ok" THEN "inner" ELSE "outer"
                /\ parsed' = "none"

\* update_entries once get_header_url has the content it goes on with. The
\* header download and the parsed document are read only when the branch
\* gets that far.
AfterHeaderContent(s, content) ==
    LET far == header_branch(s, "err", content, 0, ErrParsed, <<>>).ret = "InvalidPlaylist"
    IN  \E r \in (IF far THEN HeaderDownloadResults ELSE {0}) :
        \E doc \in (IF far THEN ParsedDocs(parsed) ELSE {ErrParsed}) :
        \E dl \in [1..Len(doc.durs) -> DownloadResults] :
            LET u == header_branch(s, parsed, content, r, doc, dl)
            IN  /\ Set(u.s)
                /\ Bounded(u.s)
                /\ pc' = IF u.ret = "Ok" THEN "inner"
                         ELSE IF u.ret = "Recurse" THEN "get_header_url" ELSE "outer"
                /\ parsed' = IF u.ret = "Recurse" THEN parsed ELSE "none"

\* run(), lines 227 and 243: the outer loop ends once quit is set
Exit ==
    /\ Idle
    /\ pc = "outer" /\ quit
    /\ pc' = "done"
    /\ UNCHANGED <<live_status, last_sequence, ts_length, timestamp, ts_entries,
                   header, stream_type, cache_size, m3u8_url, quit, fs, records,
                   parsed, served, out, shadow>>
    /\ UNCHANGED concurrent

\* run(), lines 228 and 241: check_status; live enters the inner loop
Poll ==
    /\ Idle
    /\ pc = "outer" /\ ~quit
    /\ \E room \in RoomInfos : \E play \in PlaysFor(room) :
          LET c == check_status(Cur, room, play)
          IN  Set(c.s) /\ pc' = IF c.ret THEN "inner" ELSE "outer"
    /\ UNCHANGED <<quit, parsed, served, out, shadow>>
    /\ UNCHANGED concurrent

\* run(), lines 230 and 238: the inner loop ends once quit is set
LeaveInner ==
    /\ Idle
    /\ pc = "inner" /\ quit
    /\ pc' = "outer"
    /\ UNCHANGED <<live_status, last_sequence, ts_length, timestamp, ts_entries,
                   header, stream_type, cache_size, m3u8_url, quit, fs, records,
                   parsed, served, out, shadow>>
    /\ UNCHANGED concurrent

\* update_entries enters get_playlist (lines 282-284): the first fetch fails,
\* returns "Not Found", or returns a document
FetchPlaylist ==
    /\ Idle
    /\ pc = "inner" /\ ~quit
    /\ \E k \in {"err", "notfound", "ok"} :
          IF k = "notfound"
          THEN /\ pc' = "gp_check"
               /\ UNCHANGED <<live_status, last_sequence, ts_length, timestamp,
                              ts_entries, header, stream_type, cache_size, m3u8_url,
                              fs, records, parsed>>
          ELSE AfterGetPlaylist(Cur, k)
    /\ UNCHANGED <<quit, served, out, shadow>>
    /\ UNCHANGED concurrent

\* get_playlist, lines 286-290: check_status after "Not Found"
PlaylistCheck ==
    /\ Idle
    /\ pc = "gp_check"
    /\ \E room \in RoomInfos : \E play \in PlaysFor(room) :
          LET c == check_status(Cur, room, play)
          IN  IF c.ret
              THEN Set(c.s) /\ pc' = "gp_retry" /\ UNCHANGED parsed
              ELSE AfterGetPlaylist(c.s, "err")
    /\ UNCHANGED <<quit, served, out, shadow>>
    /\ UNCHANGED concurrent

\* a second fetch that checks liveness again on another "Not Found"
PlaylistRetryAgain ==
    /\ Idle
    /\ pc = "gp_retry"
    /\ \E k \in {"err", "notfound", "ok"} :
          IF k = "notfound"
          THEN /\ pc' = "gp_check"
               /\ UNCHANGED <<live_status, last_sequence, ts_length, timestamp,
                              ts_entries, header, stream_type, cache_size, m3u8_url,
                              fs, records, parsed>>
          ELSE AfterGetPlaylist(Cur, k)
    /\ UNCHANGED <<quit, served, out, shadow>>
    /\ UNCHANGED concurrent

\* get_playlist, lines 287 and 292: the second fetch (a second "Not Found"
\* document does not parse)
PlaylistRetry ==
    /\ Idle
    /\ pc = "gp_retry"
    /\ \E k \in {"err", "ok"} : AfterGetPlaylist(Cur, k)
    /\ UNCHANGED <<quit, served, out, shadow>>
    /\ UNCHANGED concurrent

\* get_header_url, lines 297-299: the first fetch
FetchHeader ==
    /\ Idle
    /\ pc = "get_header_url"
    /\ \E doc \in HeaderDocs(served) :
          IF doc.kind = "notfound"
          THEN /\ pc' = "gh_check"
               /\ UNCHANGED <<live_status, last_sequence, ts_length, timestamp,
                              ts_entries, header, stream_type, cache_size, m3u8_url,
                              fs, records, parsed>>
          ELSE AfterHeaderContent(Cur, doc)
    /\ UNCHANGED <<quit, served, out, shadow>>
    /\ UNCHANGED concurrent

\* get_header_url, lines 302-306: check_status after "Not Found"
HeaderCheck ==
    /\ Idle
    /\ pc = "gh_check"
    /\ \E room \in RoomInfos : \E play \in PlaysFor(room) :
          LET c == check_status(Cur, room, play)
          IN  /\ Set(c.s)
              /\ pc' = IF c.ret THEN "gh_retry" ELSE "outer"
              /\ parsed' = IF c.ret THEN parsed ELSE "none"
    /\ UNCHANGED <<quit, served, out, shadow>>
    /\ UNCHANGED concurrent

\* get_header_url, line 303 on: the second fetch
HeaderRetry ==
    /\ Idle
    /\ pc = "gh_retry"
    /\ \E doc \in HeaderDocs(served) : AfterHeaderContent(Cur, doc)
    /\ UNCHANGED <<quit, served, out, shadow>>
    /\ UNCHANGED concurrent

\* the quit signal
Stop ==
    /\ Idle
    /\ ~quit /\ pc # "done"
    /\ quit' = TRUE
    /\ UNCHANGED <<live_status, last_sequence, ts_length, timestamp, ts_entries,
                   header, stream_type, cache_size, m3u8_url, fs, records, pc,
                   parsed, served, out, shadow>>
    /\ UNCHANGED concurrent

\* --------------------------------------------------------------- requests
\* session ids and offsets a clip request can carry
ClipSessions == Timestamps \cup {0}
Offsets == 0..MaxSegs
\* the offsets the requests of the model carry
RequestOffsets == {0, MaxSegs}

\* the entries clip_range reads for session ts: the cache or the directory
ClipSource(s, ts) == IF s.timestamp = ts THEN s.ts_entries ELSE get_fs_entries(s.fs, ts)

\* the concatenation list starts with the "h" file of session ts and holds
\* only segments of its directory after it
HeaderFirst(files, ts) ==
    /\ files # <<>>
    /\ files[1] = HeaderFile(ts, ts)
    /\ \A i \in 2..Len(files) : ~files[i].h /\ files[i].dir = ts

\* what is kept of a request and its result until the caller has it
ClipOutcome(s, ts, x, y) ==
    LET r == clip_range(s, ts, x, y)
    IN  [op |-> "clip", src_empty |-> ClipSource(s, ts) = <<>>,
         fmp4 |-> s.stream_type = "FMP4", err |-> r.err, outdir |-> r.outdir,
         transcoded |-> r.transcoded, header_first |-> HeaderFirst(r.files, ts)]

\* clip_range(ts, x, y, output_path) is called and answered
ClipRange ==
    /\ Idle
    /\ \E ts \in ClipSessions : \E x \in RequestOffsets : \E y \in RequestOffsets :
          out' = ClipOutcome(Cur, ts, x, y)
    /\ UNCHANGED <<live_status, last_sequence, ts_length, timestamp, ts_entries,
                   header, stream_type, cache_size, m3u8_url, quit, fs, records, pc,
                   parsed, served, shadow>>
    /\ UNCHANGED concurrent

\* the caller takes the result
Return ==
    /\ ~Idle
    /\ out' = NoOut
    /\ UNCHANGED <<live_status, last_sequence, ts_length, timestamp, ts_entries,
                   header, stream_type, cache_size, m3u8_url, quit, fs, records, pc,
                   parsed, served, shadow>>
    /\ UNCHANGED concurrent

\* ------------------------------------------------------ the specification
\* the ghost of the restart comparison: off, or a recorder in state s that
\* is never restarted
ShadowOff == [on |-> FALSE]
Mirror(s, restarted) == [on |-> TRUE, restarted |-> restarted, s |-> s]

InitWith(tss, mirrored) ==
    /\ \E live \in BOOLEAN : \E play \in (IF live THEN PlayResults ELSE {NoPlay}) :
          LET s == new(live, play, NoFs, NoRecords)
          IN  /\ live_status = s.live_status
              /\ last_sequence = s.last_sequence
              /\ ts_length = s.ts_length
              /\ timestamp = s.timestamp
              /\ ts_entries = s.ts_entries
              /\ header = s.header
              /\ stream_type = s.stream_type
              /\ cache_size = s.cache_size
              /\ m3u8_url = s.m3u8_url
              /\ fs = s.fs
              /\ records = s.records
              /\ shadow = IF mirrored THEN Mirror(s, FALSE) ELSE ShadowOff
    /\ served = tss
    /\ task_at = NoTasks /\ view = NoView /\ deleting = NotDeleting
    /\ out = NoOut
    /\ quit = FALSE
    /\ pc = "outer"
    /\ parsed = "none"

Init == InitWith({1}, FALSE)

Next ==
    \/ Exit
    \/ Poll
    \/ LeaveInner
    \/ FetchPlaylist
    \/ PlaylistCheck
    \/ PlaylistRetry
    \/ FetchHeader
    \/ HeaderCheck
    \/ HeaderRetry
    \/ Stop
    \/ ClipRange
    \/ Return

Spec == Init /\ [][Next]_vars

\* ------------------------------------------------- the recording thread alone
\* run() on its own thread (lines 224-246), with the quit signal and no
\* requests. The thread is scheduled for as long as it has a step to take,
\* and every call it awaits returns.
Ingest ==
    \/ Exit \/ Poll \/ LeaveInner
    \/ FetchPlaylist \/ PlaylistCheck \/ PlaylistRetry
    \/ FetchHeader \/ HeaderCheck \/ HeaderRetry

NextRun == Ingest \/ Stop

SpecRun == Init /\ [][NextRun]_vars /\ WF_vars(Ingest)

\* ------------------------------------------------- restart and restore
\* The recorder next to a ghost recorder that gets the same poll results,
\* documents and download results but is never restarted.

\* one whole update_entries whose fetches return at once: p is what
\* get_playlist returned, content what get_header_url read, r the header
\* download, doc the playlist document and dl the segment downloads
update_entries(s, p, content, r, doc, dl) ==
    IF NeedsHeader(s) THEN header_branch(s, p, content, r, doc, dl)
    ELSE match_parsed(s, p, doc, s.timestamp, dl)

RestartHeaderDocs == {d \in HeaderDocs(served) : d.kind \in {"err", "media"}}
RestartNoHeaderDoc == [kind |-> "err", new_url |-> "", name |-> "none", ts |-> 0]

InitRestart == InitWith({1}, TRUE)

\* run(): check_status in the outer loop, while the room stays live and
\* the remote serves the same stream (the comparison is of one session)
RPoll ==
    /\ pc = "outer"
    /\ \E room \in RoomInfos \ {"offline"} : \E play \in PlaysFor(room) :
          LET c == check_status(Cur, room, play)
              g == check_status(shadow.s, room, play)
          IN  /\ c.s.stream_type = stream_type
              /\ Set(c.s)
              /\ pc' = IF c.ret THEN "inner" ELSE "outer"
              /\ shadow' = Mirror(g.s, shadow.restarted)
    /\ UNCHANGED <<quit, parsed, served, out>>
    /\ UNCHANGED concurrent

\* run(): update_entries in the inner loop, in a run whose segment downloads
\* succeed. The header document and download are drawn when a recorder
\* reads them. The ghost ingests what the recorder's cycle got as far as
\* ingesting.
RCycle ==
    /\ pc = "inner"
    /\ LET heads == NeedsHeader(Cur) \/ NeedsHeader(shadow.s)
       IN  \E content \in (IF heads THEN RestartHeaderDocs ELSE {RestartNoHeaderDoc}) :
           \E r \in (IF heads THEN HeaderDownloadResults ELSE {0}) :
           \E doc \in ParsedDocs("ok") :
           \E dl \in [1..Len(doc.durs) -> SegSizes] :
              LET u == update_entries(Cur, "ok", content, r, doc, dl)
                  g == update_entries(shadow.s, "ok", content, r, doc, dl)
              IN  /\ Set(u.s)
                  /\ Bounded(u.s)
                  /\ pc' = IF u.ret = "Ok" THEN "inner" ELSE "outer"
                  /\ IF u.ret = "Ok"
                     THEN Bounded(g.s) /\ shadow' = Mirror(g.s, shadow.restarted)
                     ELSE UNCHANGED shadow
    /\ UNCHANGED <<quit, parsed, served, out>>
    /\ UNCHANGED concurrent

\* the process is started again on the same cache directory and records
\* table while the remote serves the same stream: BiliRecorder::new, then run()
RRestart ==
    /\ ~shadow.restarted
    /\ \E live \in BOOLEAN : \E play \in (IF live THEN PlayResults ELSE {NoPlay}) :
          LET s == new(live, play, fs, records)
          IN  /\ s.stream_type = stream_type
              /\ s.m3u8_url = m3u8_url
              /\ Set(s)
    /\ pc' = "outer"
    /\ shadow' = Mirror(shadow.s, TRUE)
    /\ UNCHANGED <<quit, parsed, served, out>>
    /\ UNCHANGED concurrent

NextRestart ==
    \/ RPoll
    \/ RCycle
    \/ RRestart

SpecRestart == InitRestart /\ [][NextRestart]_vars


\* ------------------------------------------------- the calls of run()
\* The ingestion thread at the granularity of its calls: each check_status
\* and each update_entries whose fetches return at once is one step, and out
\* keeps what the last call read and returned. The remote also serves header
\* names whose digits are beyond u64.

\* update_entries on arrival at `match parsed` (line 426): [s, ret, ts]
before_match(s, content, r) ==
    IF ~NeedsHeader(s) THEN [s |-> s, ret |-> "Ok", ts |-> s.timestamp]
    ELSE LET g == get_header_url(s, content)
             h == update_entries_header(g.s, g.name, g.ts, r)
         IN  IF g.ret # "Ok" THEN [s |-> g.s, ret |-> g.ret, ts |-> 0] ELSE h

\* the sequences of pl whose download the loop of lines 431-473 spawns
Launched(s, pl) ==
    IF pl.kind # "media" \/ ~HasIndex(s.m3u8_url) THEN {}
    ELSE {pl.first + i - 1 : i \in {j \in 1..Len(pl.durs) : pl.first + j - 1 > s.last_sequence}}
\* those of them whose download_ts returns Err
Failed(s, pl, wd, dl) ==
    {n \in Launched(s, pl) : dl[n - pl.first + 1] = 0 \/ ~DirExists(s.fs, wd)}

CallHeaderDocs == {d \in HeaderDocs(served) : d.kind \in {"err", "media"}} \cup {OverflowDoc}
\* the playlist documents: one that does not parse, and the media playlists
\* of one-second segments
CallDocs == {OtherDoc("garbage")}
            \cup {d \in MediaDocs : \A i \in 1..Len(d.durs) : d.durs[i] = 1}

InitCalls == InitWith({1}, FALSE)

\* run(), line 228: check_status
CallCheckStatus ==
    /\ pc = "outer"
    /\ \E room \in RoomInfos : \E play \in PlaysFor(room) :
          LET c == check_status(Cur, room, play)
          IN  /\ Set(c.s)
              /\ pc' = IF c.ret THEN "inner" ELSE "outer"
              /\ out' = [op |-> "check_status", room |-> room, ret |-> c.ret]
    /\ UNCHANGED <<quit, parsed, served, shadow>>
    /\ UNCHANGED concurrent

\* run(), line 231: update_entries; a panic ends the thread
CallUpdateEntries ==
    /\ pc = "inner"
    /\ LET heads == NeedsHeader(Cur)
       IN  \E content \in (IF heads THEN CallHeaderDocs ELSE {RestartNoHeaderDoc}) :
           \E r \in (IF heads THEN HeaderDownloadResults ELSE {0}) :
           \E doc \in CallDocs :
           \E dl \in [1..Len(doc.durs) -> DownloadResults] :
              LET u == update_entries(Cur, "ok", content, r, doc, dl)
                  b == before_match(Cur, content, r)
                  reached == b.ret = "Ok"
              IN  /\ Set(u.s)
                  /\ Bounded(u.s)
                  /\ pc' = IF u.ret = "Ok" THEN "inner"
                           ELSE IF u.ret = "panic" THEN "panicked" ELSE "outer"
                  /\ out' = [op |-> "update_entries", ret |-> u.ret,
                             name |-> IF heads /\ content.kind = "media"
                                      THEN content.name ELSE "unread",
                             wd |-> b.ts,
                             launched |-> IF reached THEN Launched(b.s, doc) ELSE {},
                             failed |-> IF reached THEN Failed(b.s, doc, b.ts, dl) ELSE {}]
    /\ UNCHANGED <<quit, parsed, served, shadow>>
    /\ UNCHANGED concurrent

NextCalls ==
    \/ CallCheckStatus
    \/ CallUpdateEntries

SpecCalls == InitCalls /\ [][NextCalls]_vars

\* ------------------------------------------- playlist synthesis, step by step
\* generate_m3u8 beside the recording thread. Each read of a field takes and
\* drops that field's lock, so the thread of run() can come between two
\* reads. The remote serves one session after another, as fragmented MP4,
\* one segment at a time, and every download succeeds.
InitView == InitWith(Timestamps, FALSE)

\* the header of the session under way, of any session once it was reset
ViewHeaderDocs ==
    {d \in HeaderDocs(served) :
        d.name = "digits" /\ d.ts # 0 /\ (timestamp # 0 => d.ts = timestamp)}
ViewDocs == {d \in MediaDocs : d.durs = <<1>>}

\* run(), line 228: check_status
ViewPoll ==
    /\ pc = "outer"
    /\ \E room \in {"live", "offline"} : \E play \in PlaysFor(room) :
          LET c == check_status(Cur, room, play)
          IN  /\ c.s.stream_type = "FMP4"
              /\ Set(c.s)
              /\ pc' = IF c.ret THEN "inner" ELSE "outer"
    /\ UNCHANGED <<quit, parsed, served, out, shadow>>
    /\ UNCHANGED concurrent

\* run(), line 231: update_entries; the room going offline shows as a
\* playlist that cannot be fetched
ViewCycle ==
    /\ pc = "inner"
    /\ LET heads == NeedsHeader(Cur)
       IN  \E p \in {"ok", "err"} :
           \E content \in (IF heads THEN ViewHeaderDocs ELSE {RestartNoHeaderDoc}) :
           \E doc \in (IF p = "ok" THEN ViewDocs ELSE {ErrParsed}) :
              LET u == update_entries(Cur, p, content, MinOf(HeaderSizes), doc,
                                      [i \in 1..Len(doc.durs) |-> MinOf(SegSizes)])
              IN  /\ Set(u.s)
                  /\ Bounded(u.s)
                  /\ pc' = IF u.ret = "Ok" THEN "inner" ELSE "outer"
    /\ UNCHANGED <<quit, parsed, served, out, shadow>>
    /\ UNCHANGED concurrent

\* generate_m3u8(asked), line 665: the session asked for is the live one
GenerateM3u8 ==
    /\ view.pc = "idle"
    /\ \E asked \in served : asked = timestamp /\ view' = [pc |-> "live_status"]
    /\ UNCHANGED <<live_status, last_sequence, ts_length, timestamp, ts_entries,
                   header, stream_type, cache_size, m3u8_url, quit, fs, records, pc,
                   parsed, served, out, shadow, task_at, deleting>>

\* generate_live_m3u8, line 739
ReadLiveStatus ==
    /\ view.pc = "live_status"
    /\ view' = [pc |-> "timestamp", live_status |-> live_status]
    /\ UNCHANGED <<live_status, last_sequence, ts_length, timestamp, ts_entries,
                   header, stream_type, cache_size, m3u8_url, quit, fs, records, pc,
                   parsed, served, out, shadow, task_at, deleting>>

\* generate_live_m3u8, line 749
ReadTimestamp ==
    /\ view.pc = "timestamp"
    /\ view' = [pc |-> "header", live_status |-> view.live_status,
                timestamp |-> timestamp]
    /\ UNCHANGED <<live_status, last_sequence, ts_length, timestamp, ts_entries,
                   header, stream_type, cache_size, m3u8_url, quit, fs, records, pc,
                   parsed, served, out, shadow, task_at, deleting>>

\* generate_live_m3u8, lines 751-755
ReadHeader ==
    /\ view.pc = "header"
    /\ view' = [pc |-> "entries", live_status |-> view.live_status,
                timestamp |-> view.timestamp, header |-> header]
    /\ UNCHANGED <<live_status, last_sequence, ts_length, timestamp, ts_entries,
                   header, stream_type, cache_size, m3u8_url, quit, fs, records, pc,
                   parsed, served, out, shadow, task_at, deleting>>

\* generate_live_m3u8, lines 756-776: the cache is cloned and the text
\* written from the four values read. cache_of is a ghost, the session
\* whose segments the cache held when it was cloned.
ReadEntries ==
    /\ view.pc = "entries"
    /\ view' = [pc |-> "done", cache_of |-> timestamp,
                playlist |-> generate_live_m3u8(
                    [Cur EXCEPT !.live_status = view.live_status,
                                !.timestamp = view.timestamp,
                                !.header = view.header], FALSE)]
    /\ UNCHANGED <<live_status, last_sequence, ts_length, timestamp, ts_entries,
                   header, stream_type, cache_size, m3u8_url, quit, fs, records, pc,
                   parsed, served, out, shadow, task_at, deleting>>

\* the caller takes the playlist
ViewReturn ==
    /\ view.pc = "done"
    /\ view' = NoView
    /\ UNCHANGED <<live_status, last_sequence, ts_length, timestamp, ts_entries,
                   header, stream_type, cache_size, m3u8_url, quit, fs, records, pc,
                   parsed, served, out, shadow, task_at, deleting>>

NextView ==
    \/ ViewPoll
    \/ ViewCycle
    \/ GenerateM3u8
    \/ ReadLiveStatus
    \/ ReadTimestamp
    \/ ReadHeader
    \/ ReadEntries
    \/ ViewReturn

SpecView == InitView /\ [][NextView]_vars

\* ------------------------------------------------------- archive removal
\* delete_archive(ts) beside the recording thread. Its two awaits are two
\* steps: the thread of run() and a crash can come between them.

\* delete_archive up to the result of remove_record (line 212): [s, ret];
\* the statement can fail in the store
delete_archive_record(s, ts, db_ok) ==
    IF db_ok THEN remove_record(s, ts) ELSE [s |-> s, ret |-> "DBError"]

\* delete_archive, lines 215-216: remove_dir_all of <cache>/<room_id>/<ts>
delete_archive_dir(s, ts) == [s EXCEPT !.fs[ts] = NoDir]

InitDelete == InitWith({1}, FALSE)

\* the playlists of the run: one new segment at a time, or none that parses
DeleteDocs == {OtherDoc("garbage")} \cup {d \in CallDocs : Len(d.durs) = 1}

\* run(), line 231: update_entries, in a run whose segment downloads succeed
DeleteCycle ==
    /\ pc = "inner"
    /\ LET heads == NeedsHeader(Cur)
       IN  \E content \in (IF heads THEN RestartHeaderDocs ELSE {RestartNoHeaderDoc}) :
           \E r \in (IF heads THEN HeaderDownloadResults ELSE {0}) :
           \E doc \in DeleteDocs :
           \E dl \in [1..Len(doc.durs) -> SegSizes] :
              LET u == update_entries(Cur, "ok", content, r, doc, dl)
              IN  /\ Set(u.s)
                  /\ Bounded(u.s)
                  /\ pc' = IF u.ret = "Ok" THEN "inner" ELSE "outer"
    /\ UNCHANGED <<quit, parsed, served, out, shadow>>
    /\ UNCHANGED concurrent

\* delete_archive(ts) is called for a listed archive and awaits remove_record
DeleteRecord ==
    /\ deleting.step = "idle"
    /\ \E ts \in {x \in served : records[x].present} : \E db_ok \in BOOLEAN :
          LET d == delete_archive_record(Cur, ts, db_ok)
          IN  /\ Set(d.s)
              /\ deleting' = [step |-> IF d.ret = "Ok" THEN "record_removed" ELSE "failed",
                              ts |-> ts]
    /\ UNCHANGED <<quit, pc, parsed, served, out, shadow, task_at, view>>

\* the record is gone: the directory is removed
DeleteDir ==
    /\ deleting.step = "record_removed"
    /\ Set(delete_archive_dir(Cur, deleting.ts))
    /\ deleting' = [step |-> "done", ts |-> deleting.ts]
    /\ UNCHANGED <<quit, pc, parsed, served, out, shadow, task_at, view>>

\* delete_archive returns
DeleteReturn ==
    /\ deleting.step \in {"done", "failed"}
    /\ deleting' = NotDeleting
    /\ UNCHANGED <<live_status, last_sequence, ts_length, timestamp, ts_entries,
                   header, stream_type, cache_size, m3u8_url, quit, fs, records, pc,
                   parsed, served, out, shadow, task_at, view>>

NextDelete ==
    \/ CallCheckStatus
    \/ DeleteCycle
    \/ DeleteRecord
    \/ DeleteDir
    \/ DeleteReturn

SpecDelete == InitDelete /\ [][NextDelete]_vars

\* ------------------------------------------------------------- the locks
\* Every field of BiliRecorder has its own tokio lock (lines 48-57). A task
\* is followed through the lock operations of its code: a guard is taken
\* ("acq") where the code awaits read(), write() or lock(), and dropped
\* ("rel") where its temporary or binding goes out of scope; "await" is a
\* call that can take for ever (a fetch, a download, a statement of the
\* store). Modes: "r" read, "w" write, "x" the Mutex.
SessionLocks == {"ts_entries", "header", "timestamp", "live_status", "ts_length"}

Acq(l, m) == <<[op |-> "acq", l |-> l, m |-> m]>>
Rel(l) == <<[op |-> "rel", l |-> l, m |-> "-"]>>
\* a guard that lives for one statement
Tmp(l, m) == Acq(l, m) \o Rel(l)
Await(k) == <<[op |-> "await", l |-> k, m |-> "-"]>>
Spawn == <<[op |-> "spawn", l |-> "download", m |-> "-"]>>
Join == <<[op |-> "join", l |-> "download", m |-> "-"]>>

\* reset, lines 142-146
ResetOps ==
    Tmp("ts_length", "w") \o Tmp("last_sequence", "w") \o Tmp("ts_entries", "x")
    \o Tmp("header", "w") \o Tmp("timestamp", "w")

\* check_status, lines 150-201. The guard of client in the scrutinee of the
\* `if let` lives to the end of the `if let`; so does the second one, taken
\* for get_play_url while the first is held.
CheckStatusOps(room) ==
    Acq("client", "r") \o Await("fetch")
    \o (IF room = "err" THEN Tmp("live_status", "w")
        ELSE Tmp("room_info", "w") \o Tmp("live_status", "r")
             \o Tmp("config", "r") \o Tmp("user_info", "r")
             \o (IF room = "live"
                 THEN Acq("client", "r") \o Await("fetch") \o Tmp("m3u8_url", "w")
                      \o Tmp("stream_type", "w") \o Rel("client")
                 ELSE ResetOps)
             \o Tmp("live_status", "w"))
    \o Rel("client")

\* get_playlist and get_header_url, lines 282-283 and 297-298
FetchOps == Tmp("m3u8_url", "r") \o Acq("client", "r") \o Await("fetch") \o Rel("client")

\* ts_url, lines 327-344: the guard of stream_type lives through the match
TsUrlOps == Acq("stream_type", "r") \o Tmp("m3u8_url", "r") \o Rel("stream_type")

\* Database::add_record and update_record: the pool is cloned out of its
\* lock, then the statement runs
DbOps == Tmp("db", "r") \o Await("db")

\* update_entries, lines 365-425: the header branch with restore
HeaderOps ==
    FetchOps \o Tmp("timestamp", "w")
    \o Acq("room_info", "r") \o DbOps \o Rel("room_info")
    \o Tmp("config", "r")
    \o Tmp("ts_entries", "x") \o Tmp("ts_length", "w") \o Tmp("cache_size", "w")
    \o Tmp("last_sequence", "w")
    \o TsUrlOps
    \o Acq("client", "r") \o Await("download") \o Tmp("header", "w")
    \o Tmp("cache_size", "w") \o Rel("client")

\* one turn of the segment loop with the download awaited in place, under
\* the guard of the cache
SegmentOpsInline ==
    Tmp("last_sequence", "r") \o TsUrlOps
    \o Acq("ts_entries", "x")
    \o Acq("client", "r") \o Await("download") \o Tmp("cache_size", "w") \o Rel("client")
    \o Tmp("last_sequence", "w") \o Acq("ts_length", "w")
    \o Rel("ts_length") \o Rel("ts_entries")
    \o Spawn

\* update_entries, lines 431-472: one turn of the segment loop. The guards
\* `entries` and `total_length` live to the end of the turn.
SegmentOps ==
    Tmp("last_sequence", "r") \o TsUrlOps \o Spawn
    \o Acq("ts_entries", "x") \o Tmp("last_sequence", "w") \o Acq("ts_length", "w")
    \o Rel("ts_length") \o Rel("ts_entries")

\* the task spawned at line 451: download_ts under the guard of client
DownloadOps ==
    Acq("client", "r") \o Await("download") \o Tmp("cache_size", "w") \o Rel("client")

\* update_entries, lines 361-487. In the condition of line 365 the guard of
\* header lives until stream_type has been read. In the statement of lines
\* 480-486 the guards of ts_entries and cache_size live until update_record
\* has returned.
UpdateEntriesOps ==
    FetchOps \o Tmp("timestamp", "r") \o Tmp("config", "r")
    \o Acq("header", "r") \o Tmp("stream_type", "r") \o Rel("header")
    \o HeaderOps
    \o SegmentOps \o Join
    \o Acq("ts_entries", "x") \o Acq("cache_size", "r") \o DbOps
    \o Rel("cache_size") \o Rel("ts_entries")

\* run(), lines 227-243: a live poll, a cycle, an offline poll
RunOps ==
    Tmp("quit", "x") \o CheckStatusOps("live")
    \o Tmp("quit", "x") \o UpdateEntriesOps
    \o Tmp("quit", "x") \o CheckStatusOps("offline")

\* generate_m3u8 of the live session, lines 665 and 739-756: the guard of
\* header lives through the `if let`
PlaylistOps ==
    Tmp("timestamp", "r") \o Tmp("live_status", "r") \o Tmp("timestamp", "r")
    \o Tmp("header", "r") \o Tmp("ts_entries", "x")

\* clip that keeps the guard of ts_length while it reads the cache
ClipOpsNested ==
    Acq("ts_length", "r") \o Tmp("timestamp", "r")
    \o Tmp("header", "r") \o Tmp("ts_entries", "x") \o Rel("ts_length")
    \o Tmp("stream_type", "r") \o Tmp("timestamp", "r") \o Tmp("config", "r")
    \o Tmp("room_info", "r")

\* clip, clip_range and clip_live_range, lines 509, 523, 597-598, 617, 625,
\* 630 and 635
ClipOps ==
    Tmp("ts_length", "r") \o Tmp("timestamp", "r")
    \o Tmp("header", "r") \o Tmp("ts_entries", "x")
    \o Tmp("stream_type", "r") \o Tmp("timestamp", "r") \o Tmp("config", "r")
    \o Tmp("room_info", "r")

\* the operations of a task; the spawned task waits to be spawned
Script(t) ==
    IF t = "run" THEN RunOps
    ELSE IF t = "download" THEN DownloadOps
    ELSE IF t = "playlist" THEN PlaylistOps
    ELSE ClipOps

\* the operation a task is at; the spawned task has none until it is spawned
Spawned == task_at["download"] > 0
Running(t) == t # "download" \/ Spawned
NextOp(t) ==
    IF ~Running(t) THEN [op |-> "idle", l |-> "-", m |-> "-"]
    ELSE IF t = "download" THEN DownloadOps[task_at[t]] ELSE Script(t)[task_at[t] + 1]

\* the number of guards of lock l a task holds, and their mode
Done(t) == IF t = "download" THEN task_at[t] - 1 ELSE task_at[t]
Holds(t, l) ==
    LET s == Script(t)
        n == IF Done(t) < 0 THEN 0 ELSE Done(t)
    IN  Cardinality({i \in 1..n : s[i].op = "acq" /\ s[i].l = l})
        - Cardinality({i \in 1..n : s[i].op = "rel" /\ s[i].l = l})
HoldsAs(t, l, m) ==
    Holds(t, l) > 0 /\ \E i \in 1..Len(Script(t)) :
        Script(t)[i].op = "acq" /\ Script(t)[i].l = l /\ Script(t)[i].m = m

\* tokio's locks are fair: a writer that waits keeps later readers out.
\* The tasks a task at an "acq" waits for.
WaitsToWrite(u, l) ==
    /\ Running(u) /\ NextOp(u).op = "acq" /\ NextOp(u).l = l /\ NextOp(u).m = "w"
    /\ \E v \in Tasks : Holds(v, l) > 0
Blockers(t) ==
    LET o == NextOp(t)
    IN  IF ~Running(t) \/ o.op # "acq" THEN {}
        ELSE IF o.m = "r"
        THEN {u \in Tasks : HoldsAs(u, o.l, "w") \/ (u # t /\ WaitsToWrite(u, o.l))}
        ELSE {u \in Tasks : Holds(u, o.l) > 0}

\* a task can take its next step
CanStep(t) ==
    /\ Running(t)
    /\ Blockers(t) = {}
    /\ NextOp(t).op \in {"join", "spawn"} => ~Spawned

\* task_at after one lock operation of task t; a task that is through starts
\* again
Advance(t) ==
    IF t = "download"
    THEN IF task_at[t] = Len(DownloadOps) THEN 0 ELSE task_at[t] + 1
    ELSE IF task_at[t] + 1 = Len(Script(t)) THEN 0 ELSE task_at[t] + 1
Stepped(t) ==
    [task_at EXCEPT ![t] = Advance(t),
                    !["download"] = IF t = "run" /\ NextOp(t).op = "spawn" THEN 1
                                    ELSE IF t = "download" THEN Advance(t)
                                    ELSE @]

\* the thread of run()
RunStep ==
    /\ CanStep("run")
    /\ task_at' = Stepped("run")
    /\ UNCHANGED <<live_status, last_sequence, ts_length, timestamp, ts_entries,
                   header, stream_type, cache_size, m3u8_url, quit, fs, records, pc,
                   parsed, served, out, shadow, view, deleting>>

\* the download spawned by the cycle
DownloadStep ==
    /\ CanStep("download")
    /\ task_at' = Stepped("download")
    /\ UNCHANGED <<live_status, last_sequence, ts_length, timestamp, ts_entries,
                   header, stream_type, cache_size, m3u8_url, quit, fs, records, pc,
                   parsed, served, out, shadow, view, deleting>>

\* a generate_m3u8 call
PlaylistStep ==
    /\ CanStep("playlist")
    /\ task_at' = Stepped("playlist")
    /\ UNCHANGED <<live_status, last_sequence, ts_length, timestamp, ts_entries,
                   header, stream_type, cache_size, m3u8_url, quit, fs, records, pc,
                   parsed, served, out, shadow, view, deleting>>

\* a clip call
ClipStep ==
    /\ CanStep("clip")
    /\ task_at' = Stepped("clip")
    /\ UNCHANGED <<live_status, last_sequence, ts_length, timestamp, ts_entries,
                   header, stream_type, cache_size, m3u8_url, quit, fs, records, pc,
                   parsed, served, out, shadow, view, deleting>>

InitLocks == InitWith({1}, FALSE) /\ ~live_status

NextLocks ==
    \/ RunStep
    \/ DownloadStep
    \/ PlaylistStep
    \/ ClipStep

SpecLocks == InitLocks /\ [][NextLocks]_vars

\* ------------------------------------------------------ the records store
\* The Database on its own: its operations called with any room, session
\* and values, the result of the last call kept in out.
StoreLengths == {1, MaxCache}
StoreSizes == {1, MaxBytes}

InitStore == InitWith({1}, FALSE)

\* Database::add_record(live_id, room_id, title)
DbAddRecord ==
    /\ \E live_id \in Timestamps : \E room \in Rooms : \E now \in Instants :
          LET a == add_record(Cur, live_id, room, now)
          IN  /\ Set(a.s)
              /\ out' = [op |-> "add_record", live_id |-> live_id, room_id |-> room,
                         now |-> now, before |-> records[live_id], ret |-> a.ret]
    /\ UNCHANGED <<quit, pc, parsed, served, shadow>>
    /\ UNCHANGED concurrent

\* Database::update_record(live_id, length, size)
DbUpdateRecord ==
    /\ \E live_id \in Timestamps : \E length \in StoreLengths : \E size \in StoreSizes :
          /\ Set(update_record(Cur, live_id, length, size))
          /\ out' = [op |-> "update_record", live_id |-> live_id,
                     before |-> records[live_id],
                     ret |-> update_record_ret(Cur, live_id)]
    /\ UNCHANGED <<quit, pc, parsed, served, shadow>>
    /\ UNCHANGED concurrent

\* Database::remove_record(live_id), as delete_archive of the recorder of
\* room calls it
DbRemoveRecord ==
    /\ \E live_id \in Timestamps : \E room \in Rooms :
          LET d == remove_record(Cur, live_id)
          IN  /\ Set(d.s)
              /\ out' = [op |-> "remove_record", live_id |-> live_id,
                         room_id |-> room, before |-> records[live_id],
                         ret |-> d.ret]
    /\ UNCHANGED <<quit, pc, parsed, served, shadow>>
    /\ UNCHANGED concurrent

NextStore ==
    \/ DbAddRecord
    \/ DbUpdateRecord
    \/ DbRemoveRecord

SpecStore == InitStore /\ [][NextStore]_vars

\* ------------------------------------------------------------- properties
\* the ingestion thread is between two cycles
BetweenCycles == pc \in {"inner", "outer", "done"}

\* the step is a status poll (run, get_playlist or get_header_url calling
\* check_status) that observed the room offline
OfflinePoll ==
    /\ pc \in {"outer", "gp_check", "gh_check"}
    /\ Idle /\ out' = out /\ quit' = quit /\ pc' # "done"
    /\ ~live_status'

\* the sequences of the segment files of a concatenation list
Selected(files) == {files[i].n : i \in {j \in 1..Len(files) : ~files[j].h}}

\* C1: the segment cache has strictly increasing sequence numbers after every
\* sequence of ingestion cycles, header/restore cycles included.
C1_CacheStrictlyIncreasing ==
    \A i \in 1..Len(ts_entries) : \A j \in 1..Len(ts_entries) :
        i < j => ts_entries[i].sequence < ts_entries[j].sequence

\* C2: a segment is in the cache after a cycle only if its download
\* succeeded, that is only if its file was written to the session directory
\* (stated for the sessions that have a directory).
C2_CachedOnlyIfDownloaded ==
    (BetweenCycles /\ DirExists(fs, timestamp)) =>
        \A i \in 1..Len(ts_entries) : fs[timestamp].segs[ts_entries[i].sequence] > 0

\* C3: a status poll that observes the room offline leaves the cache empty,
\* no header, and timestamp, last_sequence, ts_length and cache_size at 0.
C3_OfflinePollClearsAll ==
    [][OfflinePoll =>
         /\ ts_entries' = <<>>
         /\ header' = NoHeader
         /\ timestamp' = 0
         /\ last_sequence' = 0
         /\ ts_length' = 0
         /\ cache_size' = 0]_vars

\* C4: generate_m3u8(S) of the active session S is EVENT without ENDLIST
\* while live, and right after the poll that detects offline it is VOD with
\* ENDLIST and lists the segments of the last live playlist.
C4_OfflineTurnsEventIntoVod ==
    [][(OfflinePoll /\ live_status /\ timestamp # 0) =>
         \A checked \in BOOLEAN :
            LET before == generate_m3u8(Cur, timestamp, checked)
                after == generate_m3u8(Cur', timestamp, checked)
            IN  before.panic
                \/ /\ before.type = "EVENT" /\ ~before.endlist
                   /\ after.type = "VOD" /\ after.endlist
                   /\ {before.items[i].n : i \in 1..Len(before.items)}
                      = {after.items[i].n : i \in 1..Len(after.items)}]_vars

\* a playlist has a discontinuity exactly before the entries whose sequence
\* exceeds the previous one by more than 1
MarkersAtGaps(pl) ==
    /\ ~pl.panic
    /\ \A i \in 1..Len(pl.items) :
          pl.items[i].disc <=> (i > 1 /\ pl.items[i].n - pl.items[i - 1].n > 1)

\* C5: in live and archive playlists a discontinuity marker precedes an
\* entry iff its sequence exceeds the previous listed sequence by more than 1.
C5_DiscontinuityIffGap ==
    \A checked \in BOOLEAN :
        /\ MarkersAtGaps(generate_live_m3u8(Cur, checked))
        /\ \A ts \in Timestamps : MarkersAtGaps(generate_archive_m3u8(Cur, ts, checked))

\* C6: clip_range with x > y selects the same segment files as with the
\* offsets exchanged, for the live and for every archive session.
C6_ReversedOffsetsSameSelection ==
    \A ts \in ClipSessions : \A x \in Offsets : \A y \in Offsets :
        x > y => LET a == clip_range(Cur, ts, x, y)
                     b == clip_range(Cur, ts, y, x)
                 IN  a.err = b.err /\ Selected(a.files) = Selected(b.files)

\* C7: for offsets 0 <= start <= end < n a successful clip_range selects
\* exactly the segments at positions start..end of the session, live or archive.
C7_SelectsStartToEnd ==
    \A ts \in ClipSessions : \A start \in Offsets : \A end \in Offsets :
        LET source == ClipSource(Cur, ts)
            r == clip_range(Cur, ts, start, end)
        IN  (start <= end /\ end < Len(source) /\ r.err = "none") =>
                Selected(r.files) = {source[i].sequence : i \in (start + 1)..(end + 1)}

\* C8: clip_range on a session whose segment source is empty returns
\* EmptyCache without creating the output directory or running the transcoder.
C8_EmptySourceFailsFast ==
    (out.op = "clip" /\ out.src_empty) =>
        out.err = "EmptyCache" /\ ~out.outdir /\ ~out.transcoded

\* a clip request on an empty source has been answered
C8_Witness == out.op = "clip" /\ out.src_empty /\ out.err = "EmptyCache"

\* C9: for an FMP4 session with a non-empty source clip_range never aborts
\* and its concatenation list is the session header followed by segments only.
C9_HeaderAlwaysPrefixed ==
    (out.op = "clip" /\ out.fmp4 /\ ~out.src_empty) =>
        out.err = "none" /\ out.header_first

\* every cached segment of s is a file of its session directory, once
AllOnDisk(s) ==
    /\ DirExists(s.fs, s.timestamp)
    /\ \A i \in 1..Len(s.ts_entries) : s.fs[s.timestamp].segs[s.ts_entries[i].sequence] > 0
    /\ \A i \in 1..Len(s.ts_entries) : \A j \in 1..Len(s.ts_entries) :
          i < j => s.ts_entries[i].sequence < s.ts_entries[j].sequence

\* C10: after a restart, the restore from the directory and further
\* ingestion, the cache order, last_sequence, ts_length and cache_size are
\* those of the recorder that ingested the same segments without a restart
\* (stated for runs whose downloads all succeeded).
C10_RestartIsInvisible ==
    (shadow.restarted /\ header.some /\ pc = "inner" /\ AllOnDisk(shadow.s)) =>
        /\ ts_entries = shadow.s.ts_entries
        /\ last_sequence = shadow.s.last_sequence
        /\ ts_length = shadow.s.ts_length
        /\ cache_size = shadow.s.cache_size


\* the last call was add_record for a (room_id, live_id) whose row existed
ReAdded ==
    /\ out.op = "add_record"
    /\ out.before.present
    /\ out.before.room_id = out.room_id

\* C11: add_record for a (room_id, live_id) whose record exists returns the
\* stored record (its length, size and created_at) and not an error, and
\* leaves the stored record as it was.
C11_AddExistingReturnsStored ==
    ReAdded =>
        /\ out.ret.ok
        /\ out.ret.row = out.before
        /\ records[out.live_id] = out.before

\* a session whose record had been updated was registered again, later
C11_Witness ==
    /\ ReAdded
    /\ out.before.length > 0
    /\ out.before.created_at # out.now


\* C12: generate_m3u8 of a session other than the active one is of type VOD
\* and ends with #EXT-X-ENDLIST, whatever its directory holds, an empty
\* directory included (stated for the sessions the store has a record of).
C12_ArchiveIsVodWithEndlist ==
    \A ts \in Timestamps : \A checked \in BOOLEAN :
        (ts # timestamp /\ records[ts].present) =>
            LET pl == generate_m3u8(Cur, ts, checked)
            IN  pl.type = "VOD" /\ pl.endlist

\* C13: after every ingestion cycle and restore, ts_length is the number of
\* entries of the segment cache.
C13_LengthCountsEntries ==
    BetweenCycles => ts_length = Len(ts_entries)


\* C15: once quit is set the recording thread starts no further cycle or
\* poll and eventually leaves run(), whatever state it was in, given that
\* every call it awaits returns.
C15_QuitLeadsToExit == quit ~> (pc = "done")

\* C14: between two resets a non-zero timestamp never becomes another
\* non-zero value, whatever header name the cycle at get_header_url reads.
C14_TimestampFixedInSession ==
    (pc \in {"get_header_url", "gh_retry"} /\ timestamp # 0) =>
        \A content \in HeaderDocs(Timestamps) :
            LET h == header_branch(Cur, "err", content, 0, ErrParsed, <<>>)
            IN  h.s.timestamp # 0 => h.s.timestamp = timestamp

\* C16: a check_status whose get_room_info fails reports live and leaves
\* the cache, the header, timestamp, last_sequence, ts_length and cache_size
\* as they were.
C16_FailedPollKeepsSession ==
    [][(pc = "outer" /\ out'.op = "check_status" /\ out'.room = "err") =>
         /\ out'.ret /\ pc' = "inner" /\ live_status'
         /\ UNCHANGED <<ts_entries, header, timestamp, last_sequence, ts_length,
                        cache_size>>]_vars

\* the status request failed while a session with a header and segments was held
C16_Witness ==
    /\ out.op = "check_status" /\ out.room = "err"
    /\ ts_entries # <<>> /\ header.some /\ timestamp # 0

\* C17: a "Not Found" document is followed by exactly one check_status; the
\* fetcher fetches once more only if that reports live, returns its error
\* otherwise, and after the second fetch neither checks nor fetches again
\* (steps of the recording thread are those that leave quit alone).
C17_OneCheckOneRetry ==
    [][quit' = quit =>
       /\ pc = "gp_check" =>
            IF live_status' THEN pc' = "gp_retry"
            ELSE pc' \notin {"gp_check", "gp_retry"}
                 /\ (pc' = "get_header_url" => parsed' = "err")
       /\ pc = "gh_check" =>
            IF live_status' THEN pc' = "gh_retry" ELSE pc' = "outer"
       /\ pc = "gp_retry" => pc' \notin {"gp_check", "gp_retry"}
       /\ pc = "gh_retry" => pc' \notin {"gh_check", "gh_retry"}]_vars

\* "Not Found" was fetched, the room is still live and the retry is due
C17_Witness == pc = "gp_retry" /\ live_status /\ ts_entries # <<>>

\* C18: a get_header_url call follows at most one master playlist, however
\* many of the documents it fetches are master playlists.
C18_AtMostOneRedirect ==
    pc = "get_header_url" =>
        \A n \in 1..MaxFetches : \A docs \in [1..n -> HeaderDocs(served)] :
            FollowRedirects(Cur, docs) <= 1

\* C19: a cycle that reads a header name from which no timestamp can be
\* parsed returns InvalidTimestamp and leaves timestamp, header, cache and
\* records as they were.
C19_UnparsedTimestampIsAnError ==
    [][(pc = "inner" /\ out'.op = "update_entries"
        /\ out'.name \in {"alpha", "overflow"}) =>
         /\ out'.ret = "InvalidTimestamp"
         /\ UNCHANGED <<timestamp, header, ts_entries, records>>]_vars

\* C20: a cycle that launched downloads returns Ok whether or not some of
\* them failed, the files of the others are written, and the record holds
\* the counters as they are once the whole batch has resolved.
C20_RecordAfterBatch ==
    (out.op = "update_entries" /\ out.launched # {}) =>
        /\ out.ret = "Ok"
        /\ \A n \in out.launched \ out.failed : fs[out.wd].segs[n] > 0
        /\ (out.wd \in Timestamps /\ records[out.wd].present) =>
              /\ records[out.wd].length = Len(ts_entries)
              /\ records[out.wd].size = cache_size

\* a batch of which one download failed and another succeeded
C20_Witness ==
    /\ out.op = "update_entries"
    /\ out.failed # {} /\ out.launched \ out.failed # {}
    /\ out.wd \in Timestamps /\ records[out.wd].present


\* C21: a cycle on a fragmented-MP4 stream that ends without the
\* initialization segment held appends nothing to the segment cache.
C21_NoSegmentWithoutHeader ==
    [][(/\ pc = "inner" /\ out'.op = "update_entries"
        /\ stream_type = "FMP4" /\ ~header'.some) =>
         ts_entries' = ts_entries]_vars

\* C22: an update or a delete of a record whose live_id is not in the table
\* returns the not-found error, not success.
C22_ZeroRowsIsNotFound ==
    (out.op \in {"update_record", "remove_record"} /\ ~out.before.present) =>
        out.ret = "NotFoundError"

\* C23: a record of another room with the same session timestamp neither
\* makes registering the session fail, nor is returned by it, nor is removed
\* by a delete through this room's recorder.
C23_RecordsArePerRoom ==
    LET foreign == out.before.present /\ out.before.room_id # out.room_id
    IN  /\ (out.op = "add_record" /\ foreign) =>
              out.ret.ok /\ out.ret.row.room_id = out.room_id
        /\ (out.op = "remove_record" /\ foreign) =>
              records[out.live_id] = out.before


\* C24: the loop of run() is left only once quit is set: whatever a status
\* check or a cycle ends with, the thread is at the status check or in the
\* inner loop afterwards.
C24_LoopEndsOnlyOnQuit == quit \/ pc \in {"outer", "inner"}

C26_NoRecordWithoutDirectory ==
    /\ deleting.step = "failed" => DirExists(fs, deleting.ts) \/ ~records[deleting.ts].present
    /\ deleting.step = "done" =>
          (records[deleting.ts].present => DirExists(fs, deleting.ts))

\* C29: a live playlist written beside the recording thread is of one
\* session: the directory of its paths (the timestamp read) is the session
\* of the initialization segment it references and of the segments it lists.
C29_PlaylistOfOneSession ==
    view.pc = "done" =>
        /\ view.playlist.map.some => view.playlist.map.ts = view.playlist.dir
        /\ view.playlist.items # <<>> => view.cache_of = view.playlist.dir

\* C27: a task of the ingestion cycle that awaits a fetch or a download, or
\* the downloads it spawned, holds no guard of the session state read by
\* generate_m3u8 and clip_range.
C27_NoSessionLockAcrossFetch ==
    \A t \in {"run", "download"} :
        (Running(t) /\ ( \/ NextOp(t).op = "await" /\ NextOp(t).l \in {"fetch", "download"}
                         \/ NextOp(t).op = "join")) =>
            \A l \in SessionLocks : Holds(t, l) = 0

\* a download is under way while generate_m3u8 holds the guard of the cache
C27_Witness ==
    /\ Spawned /\ Running("download") /\ NextOp("download").op = "await"
    /\ NextOp("run").op = "join"
    /\ Holds("playlist", "ts_entries") > 0

\* C28: no set of tasks waits for guards that only its own members hold,
\* and some task can always take a step.
C28_NoDeadlock ==
    /\ \E t \in Tasks : CanStep(t)
    /\ \A S \in SUBSET Tasks \ {{}} :
          \E t \in S : Blockers(t) \cap S = {} /\ (NextOp(t).op = "join" => "download" \notin S)

\* the recording thread holds the cache and waits for ts_length, which clip
\* is reading, while generate_m3u8 waits for the cache
C28_Witness ==
    /\ Holds("run", "ts_entries") > 0 /\ "clip" \in Blockers("run")
    /\ "run" \in Blockers("playlist")

\* C30: between cycles a false live flag comes with an empty cache, no
\* initialization segment and timestamp 0.
C30_OfflineMeansNoSession ==
    (BetweenCycles /\ ~live_status) =>
        ts_entries = <<>> /\ ~header.some /\ timestamp = 0


\* ------------------------------------------------- the URL a retry goes to
\* the playlist URLs get_play_url can resolve to when the room is polled
\* again: the one in use or another one
ResolvedUrls == PlayUrls \cup {"b/index.m3u8"}

\* get_playlist, lines 282-291, when the first fetch reports "Not Found":
\* the URL of the first fetch, whether check_status let the fetch be
\* retried, the URL check_status left in m3u8_url and the URL of the retry.
\* Both fetches are given the local url read at line 282.
get_playlist_fetches(s, room, play) ==
    LET url == s.m3u8_url
        c == check_status(s, room, play)
    IN  [first |-> url, retried |-> c.ret, resolved |-> c.s.m3u8_url,
         retry |-> IF c.ret THEN <<url>> ELSE <<>>]

\* get_header_url, lines 297-306, the same for the fetch of the master
\* playlist: both fetches are given the local url read at line 297
get_header_url_fetches(s, room, play) ==
    LET url == s.m3u8_url
        c == check_status(s, room, play)
    IN  [first |-> url, retried |-> c.ret, resolved |-> c.s.m3u8_url,
         retry |-> IF c.ret THEN <<url>> ELSE <<>>]

\* C31: when a playlist fetch reports not found and the liveness check that
\* follows succeeds and resolves a play URL, the retry fetch goes to the
\* resolved URL, in get_playlist and in get_header_url.
C31_RetryGoesToResolvedUrl ==
    \A u \in ResolvedUrls : \A t \in StreamTypes :
        LET play == [ok |-> TRUE, url |-> u, stype |-> t]
        IN  /\ pc = "gp_check" =>
                  LET f == get_playlist_fetches(Cur, "live", play)
                  IN  f.retried => f.retry = <<f.resolved>>
            /\ pc = "gh_check" =>
                  LET f == get_header_url_fetches(Cur, "live", play)
                  IN  f.retried => f.retry = <<f.resolved>>


\* the sequence numbers a media playlist lists
Listed(doc) == {doc.first + i - 1 : i \in 1..Len(doc.durs)}

\* C32: in the first segment cycle of a fresh session (empty cache,
\* last_sequence at its initial value 0) a cycle that returns Ok appends
\* every segment the media playlist lists, whatever its first sequence
\* number is, 0 included.
C32_FirstCycleAppendsAllListed ==
    (pc = "inner" /\ live_status /\ ~NeedsHeader(Cur)
     /\ ts_entries = <<>>
     /\ last_sequence = new(FALSE, NoPlay, NoFs, NoRecords).last_sequence) =>
        \A doc \in MediaDocs : \A dl \in [1..Len(doc.durs) -> DownloadResults] :
            LET u == match_parsed(Cur, "ok", doc, timestamp, dl)
            IN  u.ret = "Ok" =>
                    {u.s.ts_entries[i].sequence : i \in 1..Len(u.s.ts_entries)} = Listed(doc)


\* the lengths the clip requests carry
ClipLengths == 1..MaxCache

\* the last k entries of a segment source
LastOf(source, k) == {source[i].sequence : i \in (Len(source) - k + 1)..Len(source)}

\* C33: a successful clip(session, d) selects exactly the last min(d, n)
\* segments of the session asked about, n being its segment count, for
\* the active session and for every archive session.
C33_ClipSelectsLastSegments ==
    BetweenCycles =>
        \A ts \in Timestamps : \A d \in ClipLengths :
            LET source == ClipSource(Cur, ts)
                r == clip(Cur, ts, d)
            IN  r.err = "none" =>
                    Selected(r.files) = LastOf(source, MinOf({d, Len(source)}))

====
